---- MODULE Spec2Model ----
(***************************************************************************)
(* AgentGatePay transaction signing service.                               *)
(*                                                                         *)
(* Model of POST /sign-payment of the v3 service                           *)
(* (src/tx-signing-service/index.js): owner authorization, request         *)
(* validation, the server-side commission split and the two ordered        *)
(* ERC-20 transfer legs, each submitted to and confirmed by the chain      *)
(* client (ethers).  Every `await` of the handler is a point where other   *)
(* requests and the chain may take steps, so the handler is one action per *)
(* synchronous segment between two awaits.                                 *)
(***************************************************************************)
EXTENDS Integers, Sequences, FiniteSets, TLC

(***************************************************************************)
(* Bounds of the model.                                                    *)
(***************************************************************************)
\* number of /sign-payment requests that may be in flight concurrently
NumRequests == 2

Requests == 1..NumRequests

(***************************************************************************)
(* JavaScript values.  A string is "" when the field or header is absent   *)
(* or empty (both are falsy); total_amount is kept as its sequence of      *)
(* characters, because the handler parses it.                              *)
(***************************************************************************)
Falsy(v) == v = ""

\* the same for a value kept as its characters
FalsyChars(s) == s = <<>>

DigitChars == <<"0", "1", "2", "3", "4", "5", "6", "7", "8", "9">>

IsDigit(c) == \E i \in 1..10 : DigitChars[i] = c

DigitVal(c) == (CHOOSE i \in 1..10 : DigitChars[i] = c) - 1

(***************************************************************************)
(* BigInt: arbitrary-precision integers, sign and magnitude; the magnitude *)
(* is the little-endian sequence of decimal digits with no leading zero    *)
(* (zero is the empty magnitude and is never negative).                    *)
(***************************************************************************)
RECURSIVE MagNorm(_)
MagNorm(m) ==
    IF m = <<>> THEN <<>>
    ELSE IF m[Len(m)] = 0 THEN MagNorm(SubSeq(m, 1, Len(m) - 1))
    ELSE m

BigMake(neg, m) ==
    LET n == MagNorm(m) IN [neg |-> neg /\ n # <<>>, mag |-> n]

RECURSIVE MagOfNat(_)
MagOfNat(n) == IF n = 0 THEN <<>> ELSE <<n % 10>> \o MagOfNat(n \div 10)

Reverse(s) == [i \in 1..Len(s) |-> s[Len(s) + 1 - i]]

\* -1, 0, 1 as |a| is below, equal to, above |b|
RECURSIVE MagCmpFrom(_, _, _)
MagCmpFrom(a, b, i) ==
    IF i = 0 THEN 0
    ELSE IF a[i] < b[i] THEN -1
    ELSE IF a[i] > b[i] THEN 1
    ELSE MagCmpFrom(a, b, i - 1)

MagCmp(a, b) ==
    IF Len(a) < Len(b) THEN -1
    ELSE IF Len(a) > Len(b) THEN 1
    ELSE MagCmpFrom(a, b, Len(a))

RECURSIVE MagAddC(_, _, _)
MagAddC(a, b, carry) ==
    IF a = <<>> /\ b = <<>> THEN (IF carry = 0 THEN <<>> ELSE <<carry>>)
    ELSE LET x == IF a = <<>> THEN 0 ELSE Head(a)
             y == IF b = <<>> THEN 0 ELSE Head(b)
             s == x + y + carry
         IN <<s % 10>> \o MagAddC(IF a = <<>> THEN <<>> ELSE Tail(a),
                                  IF b = <<>> THEN <<>> ELSE Tail(b),
                                  s \div 10)

\* |a| - |b| for |a| >= |b|
RECURSIVE MagSubB(_, _, _)
MagSubB(a, b, borrow) ==
    IF a = <<>> THEN <<>>
    ELSE LET y == IF b = <<>> THEN 0 ELSE Head(b)
             d == Head(a) - y - borrow
         IN <<IF d < 0 THEN d + 10 ELSE d>>
            \o MagSubB(Tail(a), IF b = <<>> THEN <<>> ELSE Tail(b),
                       IF d < 0 THEN 1 ELSE 0)

BigNeg(a) == BigMake(~a.neg, a.mag)

\* a + b
BigAdd(a, b) ==
    IF a.neg = b.neg THEN BigMake(a.neg, MagAddC(a.mag, b.mag, 0))
    ELSE IF MagCmp(a.mag, b.mag) >= 0
         THEN BigMake(a.neg, MagSubB(a.mag, b.mag, 0))
         ELSE BigMake(b.neg, MagSubB(b.mag, a.mag, 0))

\* a - b
BigSub(a, b) == BigAdd(a, BigNeg(b))

RECURSIVE MagMulSmall(_, _, _)
MagMulSmall(a, k, carry) ==
    IF a = <<>> THEN MagOfNat(carry)
    ELSE LET p == Head(a) * k + carry
         IN <<p % 10>> \o MagMulSmall(Tail(a), k, p \div 10)

\* a * BigInt(k), for a multiplier 0 <= k < 10^7
BigMulSmall(a, k) == BigMake(a.neg, MagMulSmall(a.mag, k, 0))

\* long division of the magnitude by d, most significant digit first;
\* be is the big-endian magnitude, the result is the big-endian quotient
RECURSIVE MagDivSmallBE(_, _, _)
MagDivSmallBE(be, d, rem) ==
    IF be = <<>> THEN <<>>
    ELSE LET cur == rem * 10 + Head(be)
         IN <<cur \div d>> \o MagDivSmallBE(Tail(be), d, cur % d)

\* a / BigInt(d), for a divisor 0 < d <= 10^7: BigInt division truncates
\* toward zero, so it divides the magnitude and keeps the sign
BigDivSmall(a, d) ==
    BigMake(a.neg, Reverse(MagDivSmallBE(Reverse(a.mag), d, 0)))

BigIsPositive(a) == ~a.neg /\ a.mag # <<>>

BigIsNegative(a) == a.neg

\* a >= b
BigGeq(a, b) == ~BigIsNegative(BigSub(a, b))

\* BigInt.prototype.toString(): the decimal characters, "-" first when
\* negative
BigToString(a) ==
    IF a.mag = <<>> THEN <<"0">>
    ELSE (IF a.neg THEN <<"-">> ELSE <<>>)
         \o [i \in 1..Len(a.mag) |-> DigitChars[a.mag[Len(a.mag) + 1 - i] + 1]]

\* BigInt(string) accepts an optional sign followed by decimal digits
StringIsBigInt(s) ==
    LET body == IF s # <<>> /\ Head(s) \in {"-", "+"} THEN Tail(s) ELSE s
    IN body # <<>> /\ \A i \in 1..Len(body) : IsDigit(body[i])

\* BigInt(string), for a string StringIsBigInt accepts (BigInt throws a
\* SyntaxError on the others)
StringToBigInt(s) ==
    LET neg  == Head(s) = "-"
        body == IF Head(s) \in {"-", "+"} THEN Tail(s) ELSE s
    IN BigMake(neg, [i \in 1..Len(body) |-> DigitVal(body[Len(body) + 1 - i])])

(***************************************************************************)
(* Number: IEEE 754 doubles.  Number(string) of a decimal integer string   *)
(* is the integer rounded to 53 significant bits, ties to even, kept here  *)
(* as the BigInt of its exact value.                                       *)
(***************************************************************************)
\* 2^53 = 9007199254740992
TwoTo53 ==
    <<2, 9, 9, 0, 4, 7, 4, 5, 2, 9, 9, 1, 7, 0, 0, 9>>

MagIsOdd(m) == m # <<>> /\ m[1] % 2 = 1

RECURSIVE MagTimesTwoTo(_, _)
MagTimesTwoTo(m, e) ==
    IF e = 0 THEN m ELSE MagTimesTwoTo(MagMulSmall(m, 2, 0), e - 1)

\* m is the magnitude shifted right by e bits so far, guard the last bit
\* shifted out and sticky whether a one was shifted out before it
RECURSIVE MagRoundTo53(_, _, _, _)
MagRoundTo53(m, guard, sticky, e) ==
    IF MagCmp(m, TwoTo53) < 0
    THEN LET up == guard = 1 /\ (sticky \/ MagIsOdd(m))
         IN MagTimesTwoTo(IF up THEN MagAddC(m, <<1>>, 0) ELSE m, e)
    ELSE MagRoundTo53(MagNorm(Reverse(MagDivSmallBE(Reverse(m), 2, 0))),
                      m[1] % 2, sticky \/ guard = 1, e + 1)

\* Number(s) for a decimal integer string s
NumberOfString(s) ==
    LET a == StringToBigInt(s)
    IN BigMake(a.neg, MagRoundTo53(a.mag, 0, FALSE, 0))

RECURSIVE TrailingZeros(_)
TrailingZeros(m) ==
    IF m = <<>> \/ Head(m) # 0 THEN 0 ELSE 1 + TrailingZeros(Tail(m))

Min(a, b) == IF a < b THEN a ELSE b

\* n / (10 ** decimals) for a double n of integer value and decimals <= 22
\* (10 ** decimals is then exact): the division is correctly rounded, so the
\* result is the double nearest to the decimal coefficient / 10^scale, which
\* stands for it here, in lowest terms of ten
DoubleDivPowerOfTen(n, decimals) ==
    LET z == IF n.mag = <<>> THEN decimals
             ELSE Min(TrailingZeros(n.mag), decimals)
    IN [coefficient |-> BigToString(
                           BigMake(n.neg, SubSeq(n.mag, z + 1, Len(n.mag)))),
        scale |-> decimals - z]

(***************************************************************************)
(* Configuration tables of the v3 service.                                 *)
(***************************************************************************)
TOKENS ==
    [USDC |-> [decimals  |-> 6,
               contracts |-> [base     |-> "0x833589fCD6eDb6E08f4c7C32D4f71b54bdA02913",
                              ethereum |-> "0xA0b86991c6218b36c1d19D4a2e9Eb0cE3606eB48",
                              polygon  |-> "0x3c499c542cEF5E3811e1192ce70d8cC03d5c3359",
                              arbitrum |-> "0xaf88d065e77c8cC2239327C5EDb3A432268e5831"]],
     USDT |-> [decimals  |-> 6,
               contracts |-> [ethereum |-> "0xdAC17F958D2ee523a2206206994597C13D831ec7",
                              polygon  |-> "0xc2132D05D31c914a87C6611C10748AEb04B58e8F",
                              arbitrum |-> "0xFd086bC7CD5C481DCC9C85ebE478A1C0b69FCbb9"]],
     DAI  |-> [decimals  |-> 18,
               contracts |-> [base     |-> "0x50c5725949A6F0c72E6C4a641F24049A917DB0Cb",
                              ethereum |-> "0x6B175474E89094C44Da98b954EedeAC495271d0F",
                              polygon  |-> "0x8f3Cf7ad23Cd3CaDbD9735AFf958023239c6A063",
                              arbitrum |-> "0xDA10009cBd5D07dd0CeCc66161FC93D7c9000da1"]]]

RPCS ==
    [base     |-> "https://mainnet.base.org",
     ethereum |-> "https://cloudflare-eth.com",
     polygon  |-> "https://polygon-rpc.com",
     arbitrum |-> "https://arb1.arbitrum.io/rpc"]

EXPLORERS ==
    [base     |-> "https://basescan.org",
     ethereum |-> "https://etherscan.io",
     polygon  |-> "https://polygonscan.com",
     arbitrum |-> "https://arbiscan.io"]

(***************************************************************************)
(* State.                                                                  *)
(*                                                                         *)
(* The three configuration values are read once from the environment and   *)
(* never change.  COMMISSION_RATE holds the rate in millionths (5000 is     *)
(* the default 0.005), so that rates finer than a basis point exist.        *)
(***************************************************************************)
VARIABLES
    OWNER_API_KEY,       \* "" when the environment variable is not set
    COMMISSION_ADDRESS,  \* "" when the environment variable is not set
    COMMISSION_RATE,     \* the configured rate, in millionths
    pc,                  \* pc[r]: the await request r's handler is suspended at
    request,             \* request[r]: header and body of request r
    locals,              \* locals[r]: the handler's local constants
    response,            \* response[r]: the response sent, NoResponse before
    transfers,           \* chain client: the contract.transfer calls, in order
    waits,               \* chain client: waits[r] counts the tx.wait calls of r
    fetches,             \* identity service: fetches[r] counts the calls of r
    onchain,             \* chain: onchain[r][leg] is the status of the leg's tx
    PRIVATE_KEY,         \* v1 service: "" when the variable is not set
    AUTH_TOKEN,          \* v1 service: "" when the variable is not set
    pc1,                 \* v1 service: where the handler of its request is
    request1,            \* v1 service: method, path, header and body
    locals1,             \* v1 service: the handler's local constants
    response1,           \* v1 service: the response sent, NoResponse1 before
    transfers1,          \* v1 service: the contract.transfer calls, in order
    onchain1,            \* chain: the status of the v1 request's transaction
    depth1               \* v1 service: nested calls of the router for the request

\* the state of the v3 service
vars3 == <<OWNER_API_KEY, COMMISSION_ADDRESS, COMMISSION_RATE, pc, request,
           locals, response, transfers, waits, fetches, onchain>>

\* the state of the v1 service
vars1 == <<PRIVATE_KEY, AUTH_TOKEN, pc1, request1, locals1, response1,
           transfers1, onchain1, depth1>>

vars == <<vars3, vars1>>

config == <<OWNER_API_KEY, COMMISSION_ADDRESS, COMMISSION_RATE>>

NoHash == [req |-> 0, leg |-> "none"]

\* tx.hash of the transaction that leg of request r submitted
TxHash(r, leg) == [req |-> r, leg |-> leg]

\* req: method and path, the x-api-key header and the body.  The body holds
\* the four fields the handler destructures (line 190) and one it does not,
\* commission_address, that a client may add.
NoRequest ==
    [method |-> "", path |-> "", apiKey |-> "", merchant_address |-> "",
     total_amount |-> <<>>, token |-> "", chain |-> "",
     commission_address |-> ""]

\* receipt.status before the wait has returned a receipt
NoStatus == -1

\* the error of the catch block before anything was thrown
NoError == [code |-> "none", message |-> ""]

NoLocals ==
    [tokenAddress |-> "", commissionAmount |-> <<>>, merchantAmount |-> <<>>,
     tx1 |-> NoHash, receipt1 |-> [status |-> NoStatus],
     tx2 |-> NoHash, receipt2 |-> [status |-> NoStatus],
     error |-> NoError, fetched |-> "none"]

\* a USD field that the response does not have
NoUsd == [coefficient |-> <<>>, scale |-> 0]

\* an explorer link that the response does not have
NoUrl == [explorer |-> "", tx |-> NoHash]

NoResponse ==
    [status |-> 0, success |-> FALSE, error |-> "", message |-> "",
     tx_hash |-> NoHash, tx_hash_commission |-> NoHash,
     total_amount |-> <<>>, merchant_amount |-> <<>>,
     commission_amount |-> <<>>, commission_rate |-> 0,
     merchant |-> "", commission_address |-> "", token |-> "", chain |-> "",
     total_usd |-> NoUsd, merchant_usd |-> NoUsd, commission_usd |-> NoUsd,
     explorerUrl |-> NoUrl, explorerUrlCommission |-> NoUrl]

\* res.status(status).json({ error, message })
ErrorResponse(status, error, message) ==
    [NoResponse EXCEPT !.status = status, !.error = error, !.message = message]

(***************************************************************************)
(* The synchronous pieces of the /sign-payment handler.                    *)
(***************************************************************************)

\* verifyOwnerApiKey rejecting every key when no owner key is configured
verifyOwnerApiKey_FailClosed(apiKey) ==
    IF Falsy(OWNER_API_KEY) THEN "false"
    ELSE IF apiKey # OWNER_API_KEY THEN "false"
    ELSE "fetch"

\* verifyOwnerApiKey without the comparison of line 91
verifyOwnerApiKey_NoCompare(apiKey) ==
    IF Falsy(OWNER_API_KEY) THEN "true" ELSE "fetch"

\* verifyOwnerApiKey up to its fetch: "true" and "false" are returned at
\* once, "fetch" asks the identity service
verifyOwnerApiKey(apiKey) ==
    IF Falsy(OWNER_API_KEY) THEN "true"
    ELSE IF apiKey # OWNER_API_KEY THEN "false"
    ELSE "fetch"

\* verifyOwnerApiKey whose catch block lets the key pass
verifyOwnerApiKeyResult_CatchPasses(outcome) == outcome # "not_ok"

\* verifyOwnerApiKey after its fetch: outcome is "ok" (response.ok and a
\* JSON body), "not_ok", "bad_json" or "network_error" (both throw)
verifyOwnerApiKeyResult(outcome) == outcome = "ok"

\* the handler without the header check of line 174
KeyMissing_Never(apiKey) == FALSE

\* !apiKey of line 174: the x-api-key header is absent or empty
KeyMissing(apiKey) == Falsy(apiKey)

MissingKeyResponse ==
    ErrorResponse(401, "Unauthorized",
                  "x-api-key header required (owner API key only)")

ForbiddenResponse ==
    ErrorResponse(403, "Forbidden",
                  "This signing service only accepts requests from the owner. Your API key is not authorized.")

\* the token's contract looked up with a fallback to its ethereum contract
TokenAddress_EthereumFallback(token, chain) ==
    IF chain \in DOMAIN TOKENS[token].contracts
    THEN TOKENS[token].contracts[chain]
    ELSE TOKENS[token].contracts["ethereum"]

\* TOKENS[token].contracts[chain], "" when the chain has no entry
TokenAddress(token, chain) ==
    IF chain \in DOMAIN TOKENS[token].contracts
    THEN TOKENS[token].contracts[chain]
    ELSE ""

\* the checks without step 4, the commission address check
ValidationError_NoCommissionCheck(rq) ==
    IF Falsy(rq.merchant_address) \/ FalsyChars(rq.total_amount)
       \/ Falsy(rq.token) \/ Falsy(rq.chain)
    THEN ErrorResponse(400, "Invalid request",
                       "Required fields: merchant_address, total_amount, token, chain")
    ELSE IF rq.chain \notin DOMAIN RPCS
    THEN ErrorResponse(400, "Unsupported chain", "")
    ELSE IF rq.token \notin DOMAIN TOKENS
    THEN ErrorResponse(400, "Unsupported token", "")
    ELSE IF Falsy(TokenAddress(rq.token, rq.chain))
    THEN ErrorResponse(400, "not supported on", "")
    ELSE NoResponse

\* the checks with the chain and token checks ahead of the field check
ValidationError_ChainFirst(rq) ==
    IF rq.chain \notin DOMAIN RPCS
    THEN ErrorResponse(400, "Unsupported chain", "")
    ELSE IF rq.token \notin DOMAIN TOKENS
    THEN ErrorResponse(400, "Unsupported token", "")
    ELSE IF Falsy(rq.merchant_address) \/ FalsyChars(rq.total_amount)
    THEN ErrorResponse(400, "Invalid request",
                       "Required fields: merchant_address, total_amount, token, chain")
    ELSE IF Falsy(TokenAddress(rq.token, rq.chain))
    THEN ErrorResponse(400, "not supported on", "")
    ELSE IF Falsy(COMMISSION_ADDRESS)
    THEN ErrorResponse(500, "Commission address not configured",
                       "Set COMMISSION_ADDRESS environment variable")
    ELSE NoResponse

\* steps 2 to 4 of the handler: the response of the first failing check,
\* NoResponse when all pass
ValidationError(rq) ==
    IF Falsy(rq.merchant_address) \/ FalsyChars(rq.total_amount)
       \/ Falsy(rq.token) \/ Falsy(rq.chain)
    THEN ErrorResponse(400, "Invalid request",
                       "Required fields: merchant_address, total_amount, token, chain")
    ELSE IF rq.chain \notin DOMAIN RPCS
    THEN ErrorResponse(400, "Unsupported chain", "")
    ELSE IF rq.token \notin DOMAIN TOKENS
    THEN ErrorResponse(400, "Unsupported token", "")
    ELSE IF Falsy(TokenAddress(rq.token, rq.chain))
    THEN ErrorResponse(400, "not supported on", "")
    ELSE IF Falsy(COMMISSION_ADDRESS)
    THEN ErrorResponse(500, "Commission address not configured",
                       "Set COMMISSION_ADDRESS environment variable")
    ELSE NoResponse

\* Math.floor(COMMISSION_RATE * 10000), the rate in whole basis points.  The
\* rates of the model are ones whose double product has this exact floor.
RateBasisPoints(rate) == rate \div 100

\* commissionAmountBN of step 5
CommissionAmountBN(totalAmountBN, rate) ==
    BigDivSmall(BigMulSmall(totalAmountBN, RateBasisPoints(rate)), 10000)

\* merchantAmountBN computed as its own share of the total, not as the rest
MerchantAmountBN_OwnShare(totalAmountBN, commissionAmountBN) ==
    BigDivSmall(BigMulSmall(totalAmountBN,
                            10000 - RateBasisPoints(COMMISSION_RATE)), 10000)

\* merchantAmountBN of step 5
MerchantAmountBN(totalAmountBN, commissionAmountBN) ==
    BigSub(totalAmountBN, commissionAmountBN)

\* the catch block: error is [code, message]
CatchResponse(error) ==
    IF error.code = "INSUFFICIENT_FUNDS"
    THEN ErrorResponse(400, "Insufficient funds",
                       "Gateway wallet does not have enough tokens or ETH for gas")
    ELSE ErrorResponse(500, "Payment failed", error.message)

\* the error a rejected chain-client or BigInt call throws
LibraryError(code) == [code |-> code, message |-> code]

\* throw new Error(message)
PlainError(message) == [code |-> "", message |-> message]

\* the USD value computed with 18 decimals for every token
UsdValue_EighteenDecimals(amount, token) ==
    DoubleDivPowerOfTen(NumberOfString(amount), 18)

\* Number(amount) / (10 ** decimals) of lines 285-288
UsdValue(amount, token) ==
    DoubleDivPowerOfTen(NumberOfString(amount), TOKENS[token].decimals)

\* `${EXPLORERS[chain]}/tx/${hash}`
ExplorerUrl(chain, hash) == [explorer |-> EXPLORERS[chain], tx |-> hash]

\* step 10: the success document
SuccessResponse(rq, lc) ==
    [NoResponse EXCEPT
        !.status = 200, !.success = TRUE,
        !.tx_hash = lc.tx2, !.tx_hash_commission = lc.tx1,
        !.merchant = rq.merchant_address,
        !.commission_address = COMMISSION_ADDRESS,
        !.total_amount = rq.total_amount,
        !.merchant_amount = lc.merchantAmount,
        !.commission_amount = lc.commissionAmount,
        !.commission_rate = COMMISSION_RATE,
        !.token = rq.token, !.chain = rq.chain,
        !.total_usd = UsdValue(rq.total_amount, rq.token),
        !.merchant_usd = UsdValue(lc.merchantAmount, rq.token),
        !.commission_usd = UsdValue(lc.commissionAmount, rq.token),
        !.explorerUrl = ExplorerUrl(rq.chain, lc.tx2),
        !.explorerUrlCommission = ExplorerUrl(rq.chain, lc.tx1)]

(***************************************************************************)
(* Actions of POST /sign-payment.                                          *)
(***************************************************************************)
Respond(r, resp) ==
    /\ response' = [response EXCEPT ![r] = resp]
    /\ pc' = [pc EXCEPT ![r] = "done"]

\* a catch block that records the error and sends nothing
Catch_NoResponse(r, lc, error) ==
    /\ locals' = [locals EXCEPT ![r] = [lc EXCEPT !.error = error]]
    /\ pc' = [pc EXCEPT ![r] = "failed"]
    /\ UNCHANGED response

\* an error thrown in the try block reaches the catch block (lines 329-343);
\* lc is the handler's locals at the throw
Catch(r, lc, error) ==
    /\ locals' = [locals EXCEPT ![r] = [lc EXCEPT !.error = error]]
    /\ Respond(r, CatchResponse(error))

\* contract.transfer(to, amount) is called for the leg of request r
CallTransfer(r, leg, contract, to, amount) ==
    transfers' = Append(transfers,
                        [req |-> r, leg |-> leg, contract |-> contract,
                         to |-> to, amount |-> amount])

\* steps 2 to 8 with the commission sent to the commission_address of the
\* body when the client gave one
Authorized_ClientCommission(r, lc, rq) ==
    IF ValidationError(rq) # NoResponse
    THEN /\ locals' = [locals EXCEPT ![r] = lc]
         /\ Respond(r, ValidationError(rq))
         /\ UNCHANGED transfers
    ELSE IF ~StringIsBigInt(rq.total_amount)
    THEN /\ Catch(r, lc, LibraryError("SyntaxError"))
         /\ UNCHANGED transfers
    ELSE LET totalAmountBN      == StringToBigInt(rq.total_amount)
             commissionAmountBN == CommissionAmountBN(totalAmountBN, COMMISSION_RATE)
             merchantAmountBN   == MerchantAmountBN(totalAmountBN, commissionAmountBN)
             tokenAddress       == TokenAddress(rq.token, rq.chain)
         IN /\ locals' = [locals EXCEPT ![r] =
                            [lc EXCEPT !.tokenAddress = tokenAddress,
                                      !.commissionAmount = BigToString(commissionAmountBN),
                                      !.merchantAmount = BigToString(merchantAmountBN)]]
            /\ CallTransfer(r, "commission", tokenAddress,
                            IF Falsy(rq.commission_address) THEN COMMISSION_ADDRESS
                            ELSE rq.commission_address,
                            BigToString(commissionAmountBN))
            /\ pc' = [pc EXCEPT ![r] = "transfer1"]
            /\ UNCHANGED response

\* steps 2 to 8 (lines 189-258), run once the owner is authenticated: the
\* checks, the split and the submission of the commission transfer; lc is
\* the handler's locals so far
Authorized(r, lc, rq) ==
    IF ValidationError(rq) # NoResponse
    THEN /\ locals' = [locals EXCEPT ![r] = lc]
         /\ Respond(r, ValidationError(rq))
         /\ UNCHANGED transfers
    ELSE IF ~StringIsBigInt(rq.total_amount)
    THEN /\ Catch(r, lc, LibraryError("SyntaxError"))
         /\ UNCHANGED transfers
    ELSE LET totalAmountBN      == StringToBigInt(rq.total_amount)
             commissionAmountBN == CommissionAmountBN(totalAmountBN, COMMISSION_RATE)
             merchantAmountBN   == MerchantAmountBN(totalAmountBN, commissionAmountBN)
             tokenAddress       == TokenAddress(rq.token, rq.chain)
         IN /\ locals' = [locals EXCEPT ![r] =
                            [lc EXCEPT !.tokenAddress = tokenAddress,
                                      !.commissionAmount = BigToString(commissionAmountBN),
                                      !.merchantAmount = BigToString(merchantAmountBN)]]
            /\ CallTransfer(r, "commission", tokenAddress, COMMISSION_ADDRESS,
                            BigToString(commissionAmountBN))
            /\ pc' = [pc EXCEPT ![r] = "transfer1"]
            /\ UNCHANGED response

\* the handler with the checks of steps 2 to 4 ahead of the authorization
SignPayment_ValidateFirst(r, rq) ==
    /\ pc[r] = "idle"
    /\ request' = [request EXCEPT ![r] = rq]
    /\ IF ValidationError(rq) # NoResponse
       THEN /\ Respond(r, ValidationError(rq))
            /\ UNCHANGED <<locals, transfers, fetches>>
       ELSE IF KeyMissing(rq.apiKey)
       THEN /\ Respond(r, MissingKeyResponse)
            /\ UNCHANGED <<locals, transfers, fetches>>
       ELSE IF verifyOwnerApiKey(rq.apiKey) = "true"
       THEN /\ Authorized(r, locals[r], rq)
            /\ UNCHANGED fetches
       ELSE IF verifyOwnerApiKey(rq.apiKey) = "false"
       THEN /\ Respond(r, ForbiddenResponse)
            /\ UNCHANGED <<locals, transfers, fetches>>
       ELSE /\ fetches' = [fetches EXCEPT ![r] = @ + 1]
            /\ pc' = [pc EXCEPT ![r] = "verify"]
            /\ UNCHANGED <<locals, transfers, response>>
    /\ UNCHANGED <<vars1, config, waits, onchain>>

\* a request arrives: step 1 (lines 168-187) and, when verifyOwnerApiKey
\* returns without a fetch, the steps after it
SignPayment(r, rq) ==
    /\ pc[r] = "idle"
    /\ request' = [request EXCEPT ![r] = rq]
    /\ IF KeyMissing(rq.apiKey)
       THEN /\ Respond(r, MissingKeyResponse)
            /\ UNCHANGED <<locals, transfers, fetches>>
       ELSE IF verifyOwnerApiKey(rq.apiKey) = "true"
       THEN /\ Authorized(r, locals[r], rq)
            /\ UNCHANGED fetches
       ELSE IF verifyOwnerApiKey(rq.apiKey) = "false"
       THEN /\ Respond(r, ForbiddenResponse)
            /\ UNCHANGED <<locals, transfers, fetches>>
       ELSE /\ fetches' = [fetches EXCEPT ![r] = @ + 1]
            /\ pc' = [pc EXCEPT ![r] = "verify"]
            /\ UNCHANGED <<locals, transfers, response>>
    /\ UNCHANGED <<vars1, config, waits, onchain>>

\* the identity service answers the fetch of verifyOwnerApiKey
FetchReturns(r, outcome) ==
    /\ pc[r] = "verify"
    /\ IF verifyOwnerApiKeyResult(outcome)
       THEN Authorized(r, [locals[r] EXCEPT !.fetched = outcome], request[r])
       ELSE /\ locals' = [locals EXCEPT ![r].fetched = outcome]
            /\ Respond(r, ForbiddenResponse)
            /\ UNCHANGED transfers
    /\ UNCHANGED <<vars1, config, request, waits, fetches, onchain>>

LegOf(r) ==
    IF pc[r] \in {"transfer1", "wait1"} THEN "commission" ELSE "merchant"

\* the amount the pending contract.transfer call of r was given
PendingAmount(r) ==
    IF LegOf(r) = "commission" THEN locals[r].commissionAmount
    ELSE locals[r].merchantAmount

\* contract.transfer resolves: the transaction is broadcast, and the handler
\* calls tx.wait(1, 60000).  The ABI coder of the client rejects an amount
\* that is not a uint256, so a negative amount never resolves.
TransferResolves(r) ==
    /\ pc[r] \in {"transfer1", "transfer2"}
    /\ Head(PendingAmount(r)) # "-"
    /\ onchain' = [onchain EXCEPT ![r][LegOf(r)] = "pending"]
    /\ locals' = [locals EXCEPT ![r] =
                    IF LegOf(r) = "commission"
                    THEN [@ EXCEPT !.tx1 = TxHash(r, "commission")]
                    ELSE [@ EXCEPT !.tx2 = TxHash(r, "merchant")]]
    /\ waits' = [waits EXCEPT ![r] = @ + 1]
    /\ pc' = [pc EXCEPT ![r] = IF pc[r] = "transfer1" THEN "wait1" ELSE "wait2"]
    /\ UNCHANGED <<vars1, config, request, response, transfers, fetches>>

TransferErrors == {"INSUFFICIENT_FUNDS", "INVALID_ARGUMENT", "NETWORK_ERROR"}

\* contract.transfer rejects: nothing is broadcast, the catch block answers
TransferRejects(r, code) ==
    /\ pc[r] \in {"transfer1", "transfer2"}
    /\ Catch(r, locals[r], LibraryError(code))
    /\ UNCHANGED <<vars1, config, request, transfers, waits, fetches, onchain>>

\* the chain includes a pending transaction in a block, with either status;
\* it does so whether or not the handler still waits for it
Mine(r, leg, status) ==
    /\ onchain[r][leg] = "pending"
    /\ onchain' = [onchain EXCEPT ![r][leg] = status]
    /\ UNCHANGED <<vars1, config, pc, request, locals, response, transfers, waits, fetches>>

\* receipt1 handled without the status check of line 266
Receipt1_Unchecked(r, status) ==
    LET lc == [locals[r] EXCEPT !.receipt1 = [status |-> status]]
    IN /\ locals' = [locals EXCEPT ![r] = lc]
       /\ CallTransfer(r, "merchant", lc.tokenAddress,
                       request[r].merchant_address, lc.merchantAmount)
       /\ pc' = [pc EXCEPT ![r] = "transfer2"]
       /\ UNCHANGED response

\* receipt1 handled with the whole total sent on to the merchant
Receipt1_SendsTotal(r, status) ==
    LET lc == [locals[r] EXCEPT !.receipt1 = [status |-> status]]
    IN IF status # 1
       THEN /\ Catch(r, lc, PlainError("Commission transaction failed on-chain"))
            /\ UNCHANGED transfers
       ELSE /\ locals' = [locals EXCEPT ![r] = lc]
            /\ CallTransfer(r, "merchant", lc.tokenAddress,
                            request[r].merchant_address, request[r].total_amount)
            /\ pc' = [pc EXCEPT ![r] = "transfer2"]
            /\ UNCHANGED response

\* tx1.wait returned receipt1 (lines 262-272): a failed status throws, a
\* success submits the merchant transfer
Receipt1(r, status) ==
    LET lc == [locals[r] EXCEPT !.receipt1 = [status |-> status]]
    IN IF status # 1
       THEN /\ Catch(r, lc, PlainError("Commission transaction failed on-chain"))
            /\ UNCHANGED transfers
       ELSE /\ locals' = [locals EXCEPT ![r] = lc]
            /\ CallTransfer(r, "merchant", lc.tokenAddress,
                            request[r].merchant_address, lc.merchantAmount)
            /\ pc' = [pc EXCEPT ![r] = "transfer2"]
            /\ UNCHANGED response

\* receipt2 handled without the status check of line 280
Receipt2_Unchecked(r, status) ==
    LET lc == [locals[r] EXCEPT !.receipt2 = [status |-> status]]
    IN /\ locals' = [locals EXCEPT ![r] = lc]
       /\ Respond(r, SuccessResponse(request[r], lc))
       /\ UNCHANGED transfers

\* tx2.wait returned receipt2 (lines 276-327): a failed status throws, a
\* success sends the success document
Receipt2(r, status) ==
    LET lc == [locals[r] EXCEPT !.receipt2 = [status |-> status]]
    IN /\ IF status # 1
          THEN Catch(r, lc, PlainError("Merchant transaction failed on-chain"))
          ELSE /\ locals' = [locals EXCEPT ![r] = lc]
               /\ Respond(r, SuccessResponse(request[r], lc))
       /\ UNCHANGED transfers

\* tx.wait resolves with the receipt of the mined transaction
WaitResolves(r) ==
    /\ pc[r] \in {"wait1", "wait2"}
    /\ onchain[r][LegOf(r)] \in {"success", "reverted"}
    /\ LET status == IF onchain[r][LegOf(r)] = "success" THEN 1 ELSE 0
       IN IF pc[r] = "wait1" THEN Receipt1(r, status) ELSE Receipt2(r, status)
    /\ UNCHANGED <<vars1, config, request, waits, fetches, onchain>>

WaitErrors == {"TIMEOUT", "CALL_EXCEPTION", "NETWORK_ERROR"}

\* a handler that submits the leg's transfer again when its wait times out
WaitRejects_Retry(r, code) ==
    /\ pc[r] \in {"wait1", "wait2"}
    /\ code = "TIMEOUT" => onchain[r][LegOf(r)] = "pending"
    /\ code = "CALL_EXCEPTION" => onchain[r][LegOf(r)] = "reverted"
    /\ IF code = "TIMEOUT"
       THEN /\ CallTransfer(r, LegOf(r), locals[r].tokenAddress,
                            IF LegOf(r) = "commission" THEN COMMISSION_ADDRESS
                            ELSE request[r].merchant_address,
                            PendingAmount(r))
            /\ pc' = [pc EXCEPT ![r] = IF pc[r] = "wait1" THEN "transfer1"
                                       ELSE "transfer2"]
            /\ UNCHANGED <<locals, response>>
       ELSE /\ Catch(r, locals[r], LibraryError(code))
            /\ UNCHANGED transfers
    /\ UNCHANGED <<vars1, config, request, waits, fetches, onchain>>

\* tx.wait rejects: after 60 s without a receipt (TIMEOUT, the transaction
\* stays pending), on a reverted transaction in clients that throw instead
\* of returning the receipt (CALL_EXCEPTION), or on a provider error
WaitRejects(r, code) ==
    /\ pc[r] \in {"wait1", "wait2"}
    /\ code = "TIMEOUT" => onchain[r][LegOf(r)] = "pending"
    /\ code = "CALL_EXCEPTION" => onchain[r][LegOf(r)] = "reverted"
    /\ Catch(r, locals[r], LibraryError(code))
    /\ UNCHANGED <<vars1, config, request, transfers, waits, fetches, onchain>>

(***************************************************************************)
(* The other routes of the service and the router in front of them.        *)
(***************************************************************************)
\* GET /health (lines 117-133): the response reports the configuration
HealthResponse ==
    [NoResponse EXCEPT
        !.status = 200,
        !.commission_rate = COMMISSION_RATE,
        !.commission_address = IF Falsy(COMMISSION_ADDRESS) THEN "not configured"
                               ELSE COMMISSION_ADDRESS]

Health(r, rq) ==
    /\ pc[r] = "idle"
    /\ request' = [request EXCEPT ![r] = rq]
    /\ Respond(r, HealthResponse)
    /\ UNCHANGED <<vars1, config, locals, transfers, waits, fetches, onchain>>

DeprecatedResponse ==
    ErrorResponse(410, "Endpoint deprecated",
                  "Please use POST /sign-payment instead for automatic commission enforcement")

\* a legacy endpoint that still signs the single transfer the body asks for
LegacySign_SingleTransfer(r, rq) ==
    /\ pc[r] = "idle"
    /\ request' = [request EXCEPT ![r] = rq]
    /\ Respond(r, [NoResponse EXCEPT !.status = 200, !.success = TRUE])
    /\ IF ValidationError(rq) = NoResponse
       THEN CallTransfer(r, "merchant", TokenAddress(rq.token, rq.chain),
                         rq.merchant_address, rq.total_amount)
       ELSE UNCHANGED transfers
    /\ UNCHANGED <<vars1, config, locals, waits, fetches, onchain>>

\* POST /sign (lines 351-361): answers 410 whatever the request holds
LegacySign(r, rq) ==
    /\ pc[r] = "idle"
    /\ request' = [request EXCEPT ![r] = rq]
    /\ Respond(r, DeprecatedResponse)
    /\ UNCHANGED <<vars1, config, locals, transfers, waits, fetches, onchain>>

NotFoundResponse == ErrorResponse(404, "Not found", "")

\* the 404 handler (lines 364-373), reached when no route matched
NotFound(r, rq) ==
    /\ pc[r] = "idle"
    /\ request' = [request EXCEPT ![r] = rq]
    /\ Respond(r, NotFoundResponse)
    /\ UNCHANGED <<vars1, config, locals, transfers, waits, fetches, onchain>>

\* the router: the first route registered for the request's method and path,
\* in the order of registration (lines 117, 168, 351, 364)
Dispatch(r, rq) ==
    IF rq.method = "GET" /\ rq.path = "/health" THEN Health(r, rq)
    ELSE IF rq.method = "POST" /\ rq.path = "/sign-payment" THEN SignPayment(r, rq)
    ELSE IF rq.method = "POST" /\ rq.path = "/sign" THEN LegacySign(r, rq)
    ELSE NotFound(r, rq)

(***************************************************************************)
(* The v1 service: POST /sign-and-send signs one transfer; POST /sign is   *)
(* registered as its alias.  The model follows one request.                *)
(***************************************************************************)
\* the v1 service declares the same three tables (lines 33-85)
TOKENS1 == TOKENS

RPCS1 == RPCS

EXPLORERS1 == EXPLORERS

\* req.headers.authorization is a sequence of pieces, <<>> when the header
\* is absent: "Bearer secret" is <<"Bearer ", "secret">>
NoRequest1 ==
    [method |-> "", path |-> "", authorization |-> <<>>,
     to |-> "", amount |-> <<>>, token |-> "", chain |-> ""]

\* a JavaScript number that is an integer, or NaN
NaN == [isNaN |-> TRUE, value |-> 0]

JsInt(v) == [isNaN |-> FALSE, value |-> v]

NoLocals1 ==
    [tokenAddress |-> "", amountInt |-> NaN, tx |-> NoHash,
     receipt |-> [status |-> NoStatus], error |-> NoError]

NoResponse1 ==
    [status |-> 0, success |-> FALSE, error |-> "", message |-> "",
     tx_hash |-> NoHash, to |-> "", amount |-> <<>>, token |-> "",
     chain |-> "", explorer_url |-> NoUrl]

ErrorResponse1(status, error, message) ==
    [NoResponse1 EXCEPT !.status = status, !.error = error, !.message = message]

InitRequest1 ==
    /\ pc1 = "idle"
    /\ request1 = NoRequest1
    /\ locals1 = NoLocals1
    /\ response1 = NoResponse1
    /\ transfers1 = <<>>
    /\ onchain1 = "none"
    /\ depth1 = 0

\* header.replace('Bearer ', ''): the header without the first piece that
\* is 'Bearer '
RECURSIVE ReplaceBearer(_)
ReplaceBearer(header) ==
    IF header = <<>> THEN <<>>
    ELSE IF Head(header) = "Bearer " THEN Tail(header)
    ELSE <<Head(header)>> \o ReplaceBearer(Tail(header))

\* line 134-135: providedToken !== AUTH_TOKEN; an absent header gives
\* undefined, which differs from every token
TokenMismatch(authorization) ==
    \/ authorization = <<>>
    \/ ReplaceBearer(authorization) # <<AUTH_TOKEN>>

\* the longest prefix of digits of s
RECURSIVE DigitPrefix(_)
DigitPrefix(s) ==
    IF s = <<>> \/ ~IsDigit(Head(s)) THEN <<>>
    ELSE <<Head(s)>> \o DigitPrefix(Tail(s))

\* the value of a sequence of digits
RECURSIVE DigitsValue(_)
DigitsValue(d) ==
    IF d = <<>> THEN 0
    ELSE 10 * DigitsValue(SubSeq(d, 1, Len(d) - 1)) + DigitVal(d[Len(d)])

\* parseInt(amount) for a string without leading blanks and without a 0x
\* prefix: an optional sign and the digits that follow it, NaN without a digit
ParseInt(s) ==
    LET signed == s # <<>> /\ Head(s) \in {"-", "+"}
        digits == DigitPrefix(IF signed THEN Tail(s) ELSE s)
    IN IF digits = <<>> THEN NaN
       ELSE IF signed /\ Head(s) = "-" THEN JsInt(0 - DigitsValue(digits))
       ELSE JsInt(DigitsValue(digits))

\* the early returns of the /sign-and-send handler (lines 124-184): the
\* response of the first failing check, NoResponse1 when all pass
EarlyResponse1(rq) ==
    IF Falsy(PRIVATE_KEY)
    THEN ErrorResponse1(500, "Service not configured",
                        "PRIVATE_KEY environment variable not set")
    ELSE IF ~Falsy(AUTH_TOKEN) /\ TokenMismatch(rq.authorization)
    THEN ErrorResponse1(401, "Unauthorized", "")
    ELSE IF Falsy(rq.to) \/ FalsyChars(rq.amount) \/ Falsy(rq.token) \/ Falsy(rq.chain)
    THEN ErrorResponse1(400, "Missing required parameters", "")
    ELSE IF rq.chain \notin DOMAIN RPCS1
    THEN ErrorResponse1(400, "Unsupported chain", "")
    ELSE IF rq.token \notin DOMAIN TOKENS1
    THEN ErrorResponse1(400, "Unsupported token", "")
    ELSE IF rq.chain \notin DOMAIN TOKENS1[rq.token].contracts
    THEN ErrorResponse1(400, "not supported on", "")
    ELSE IF ParseInt(rq.amount).isNaN \/ ParseInt(rq.amount).value <= 0
    THEN ErrorResponse1(400, "Invalid amount",
                        "Amount must be a positive integer in token units")
    ELSE NoResponse1

\* the catch block of the handler (lines 228-261)
CatchResponse1(error) ==
    IF error.code = "INSUFFICIENT_FUNDS"
    THEN ErrorResponse1(400, "Insufficient funds",
                        "Wallet does not have enough tokens or ETH for gas")
    ELSE IF error.code \in {"NONCE_EXPIRED", "REPLACEMENT_UNDERPRICED"}
    THEN ErrorResponse1(400, "Transaction conflict",
                        "Another transaction is pending. Try again in a few seconds.")
    ELSE IF error.code = "TIMEOUT"
    THEN ErrorResponse1(408, "Transaction timeout",
                        "Transaction was sent but confirmation timed out. Check explorer.")
    ELSE ErrorResponse1(500, "Transaction failed", error.message)

\* the success document of lines 214-226
SuccessResponse1(rq, lc) ==
    [NoResponse1 EXCEPT
        !.status = 200, !.success = TRUE,
        !.tx_hash = lc.tx, !.to = rq.to, !.amount = rq.amount,
        !.token = rq.token, !.chain = rq.chain,
        !.explorer_url = [explorer |-> EXPLORERS1[rq.chain], tx |-> lc.tx],
        !.message = "Transaction signed and confirmed successfully"]

Respond1(resp) ==
    /\ response1' = resp
    /\ pc1' = "done"

Catch1(error) ==
    /\ locals1' = [locals1 EXCEPT !.error = error]
    /\ Respond1(CatchResponse1(error))

\* POST /sign-and-send up to its first await (lines 122-203): the checks,
\* then the call of contract.transfer(to, amountInt)
SignAndSend(rq) ==
    /\ pc1 = "idle"
    /\ request1' = rq
    /\ IF EarlyResponse1(rq) # NoResponse1
       THEN /\ Respond1(EarlyResponse1(rq))
            /\ UNCHANGED <<locals1, transfers1>>
       ELSE LET tokenAddress == TOKENS1[rq.token].contracts[rq.chain]
                amountInt    == ParseInt(rq.amount)
            IN /\ locals1' = [locals1 EXCEPT !.tokenAddress = tokenAddress,
                                             !.amountInt = amountInt]
               /\ transfers1' = Append(transfers1,
                                       [contract |-> tokenAddress, to |-> rq.to,
                                        amount |-> amountInt])
               /\ pc1' = "transfer"
               /\ UNCHANGED response1
    /\ UNCHANGED <<vars3, PRIVATE_KEY, AUTH_TOKEN, onchain1, depth1>>

\* contract.transfer resolves: the transaction is broadcast and the handler
\* calls tx.wait(1, 60000) (line 207)
TransferResolves1 ==
    /\ pc1 = "transfer"
    /\ onchain1' = "pending"
    /\ locals1' = [locals1 EXCEPT !.tx = TxHash(1, "transfer")]
    /\ pc1' = "wait"
    /\ UNCHANGED <<vars3, PRIVATE_KEY, AUTH_TOKEN, request1, response1,
                   transfers1, depth1>>

TransferErrors1 ==
    {"INSUFFICIENT_FUNDS", "NONCE_EXPIRED", "REPLACEMENT_UNDERPRICED",
     "INVALID_ARGUMENT", "NETWORK_ERROR"}

\* contract.transfer rejects: nothing is broadcast, the catch block answers
TransferRejects1(code) ==
    /\ pc1 = "transfer"
    /\ Catch1(LibraryError(code))
    /\ UNCHANGED <<vars3, PRIVATE_KEY, AUTH_TOKEN, request1, transfers1,
                   onchain1, depth1>>

\* the chain includes the pending transaction in a block, with either status
Mine1(status) ==
    /\ onchain1 = "pending"
    /\ onchain1' = status
    /\ UNCHANGED <<vars3, PRIVATE_KEY, AUTH_TOKEN, pc1, request1, locals1,
                   response1, transfers1, depth1>>

\* tx.wait resolves with the receipt (lines 207-226): the status is logged
\* and the success document is sent
WaitResolves1 ==
    /\ pc1 = "wait"
    /\ onchain1 \in {"success", "reverted"}
    /\ LET lc == [locals1 EXCEPT
                     !.receipt = [status |-> IF onchain1 = "success" THEN 1 ELSE 0]]
       IN /\ locals1' = lc
          /\ Respond1(SuccessResponse1(request1, lc))
    /\ UNCHANGED <<vars3, PRIVATE_KEY, AUTH_TOKEN, request1, transfers1,
                   onchain1, depth1>>

WaitErrors1 == {"TIMEOUT", "CALL_EXCEPTION", "NETWORK_ERROR"}

\* tx.wait rejects: after 60 s without a receipt (TIMEOUT, the transaction
\* stays pending), on a reverted transaction in clients that throw instead
\* of returning the receipt (CALL_EXCEPTION), or on a provider error
WaitRejects1(code) ==
    /\ pc1 = "wait"
    /\ code = "TIMEOUT" => onchain1 = "pending"
    /\ code = "CALL_EXCEPTION" => onchain1 = "reverted"
    /\ Catch1(LibraryError(code))
    /\ UNCHANGED <<vars3, PRIVATE_KEY, AUTH_TOKEN, request1, transfers1,
                   onchain1, depth1>>

\* the handlers that answer at once: GET /health (lines 87-96), GET /wallet
\* (lines 99-119, with a key that is set and well formed) and the 404
\* handler (lines 270-276)
HealthResponse1 == [NoResponse1 EXCEPT !.status = 200, !.message = "healthy"]

WalletResponse1 ==
    IF Falsy(PRIVATE_KEY)
    THEN ErrorResponse1(500, "PRIVATE_KEY not configured",
                        "Set PRIVATE_KEY environment variable in Railway dashboard")
    ELSE [NoResponse1 EXCEPT !.status = 200,
                             !.message = "Wallet configured successfully"]

NotFoundResponse1 ==
    ErrorResponse1(404, "Not found", "Use POST /sign-and-send to sign transactions")

AnswerAtOnce1(rq, resp) ==
    /\ pc1 = "idle"
    /\ request1' = rq
    /\ Respond1(resp)
    /\ UNCHANGED <<vars3, PRIVATE_KEY, AUTH_TOKEN, locals1, transfers1,
                   onchain1, depth1>>

\* the handler the router finds for a request: the first route registered
\* for its method and path (lines 87, 99, 122, 265, 270).  The router reads
\* req.method and req.url each time it is given the request.
Route1(rq) ==
    IF rq.method = "GET" /\ rq.path = "/health" THEN "health"
    ELSE IF rq.method = "GET" /\ rq.path = "/wallet" THEN "wallet"
    ELSE IF rq.method = "POST" /\ rq.path = "/sign-and-send" THEN "sign-and-send"
    ELSE IF rq.method = "POST" /\ rq.path = "/sign" THEN "sign"
    ELSE "404"

\* POST /sign (lines 265-267): the handler gives req, unchanged, to the
\* router again
SignAlias(rq) ==
    /\ pc1 = "idle"
    /\ request1' = rq
    /\ pc1' = "handle"
    /\ depth1' = 1
    /\ UNCHANGED <<vars3, PRIVATE_KEY, AUTH_TOKEN, locals1, response1,
                   transfers1, onchain1>>

\* a request arrives and is routed
Dispatch1(rq) ==
    CASE Route1(rq) = "health" -> AnswerAtOnce1(rq, HealthResponse1)
      [] Route1(rq) = "wallet" -> AnswerAtOnce1(rq, WalletResponse1)
      [] Route1(rq) = "sign-and-send" -> SignAndSend(rq)
      [] Route1(rq) = "sign" -> SignAlias(rq)
      [] OTHER -> AnswerAtOnce1(rq, NotFoundResponse1)

\* the call stack holds this many nested calls of the router
StackDepth == 3

\* app._router.handle(req, res) inside the /sign handler: the request still
\* has the url /sign, so the router finds the /sign handler again, which
\* calls the router again, synchronously, one frame deeper
Handle1 ==
    /\ pc1 = "handle"
    /\ Route1(request1) = "sign"
    /\ depth1 < StackDepth
    /\ depth1' = depth1 + 1
    /\ UNCHANGED <<vars3, PRIVATE_KEY, AUTH_TOKEN, pc1, request1, locals1,
                   response1, transfers1, onchain1>>

\* the stack is exhausted and a RangeError is thrown in the innermost call.
\* Where it surfaces depends on the frame that catches it: in a layer of
\* the router, whose error path answers 500, or in an async handler, whose
\* promise rejects unhandled and leaves the request without a response.
StackOverflow1(outcome) ==
    /\ pc1 = "handle"
    /\ depth1 = StackDepth
    /\ IF outcome = "error_response"
       THEN Respond1(ErrorResponse1(500, "Internal Server Error", "RangeError"))
       ELSE /\ pc1' = "abandoned"
            /\ UNCHANGED response1
    /\ UNCHANGED <<vars3, PRIVATE_KEY, AUTH_TOKEN, request1, locals1,
                   transfers1, onchain1, depth1>>

(***************************************************************************)
(* Inputs and configurations.                                              *)
(***************************************************************************)
OwnerKey == "owner-key"

ApiKeys == {"", OwnerKey, "other-key"}

MerchantAddresses == {"", "0xMerchant"}

\* "0", "1", "-5", "abc", "15000000" and 9223372036854775999 (above 2^63)
TotalAmounts ==
    { <<>>,
      <<"0">>,
      <<"1">>,
      <<"-", "5">>,
      <<"a", "b", "c">>,
      <<"1", "5", "0", "0", "0", "0", "0", "0">>,
      <<"9", "2", "2", "3", "3", "7", "2", "0", "3", "6",
        "8", "5", "4", "7", "7", "5", "9", "9", "9">> }

TokenNames == {"", "USDC", "USDT", "DAI", "WBTC"}

ChainNames == {"", "base", "ethereum", "polygon", "arbitrum", "solana"}

RequestInputs ==
    [method : {"POST"}, path : {"/sign-payment"},
     apiKey : ApiKeys, merchant_address : MerchantAddresses,
     total_amount : TotalAmounts, token : TokenNames, chain : ChainNames,
     commission_address : {""}]

\* 0.005 (the default), 0.000001, 0.999999 and 0.00005, in millionths
Rates == {5000, 1, 999999, 50}

FetchOutcomes == {"ok", "not_ok", "bad_json", "network_error"}

InitRequests ==
    /\ pc = [r \in Requests |-> "idle"]
    /\ request = [r \in Requests |-> NoRequest]
    /\ locals = [r \in Requests |-> NoLocals]
    /\ response = [r \in Requests |-> NoResponse]
    /\ transfers = <<>>
    /\ waits = [r \in Requests |-> 0]
    /\ fetches = [r \in Requests |-> 0]
    /\ onchain = [r \in Requests |-> [commission |-> "none", merchant |-> "none"]]

\* the v1 service with its key set, no token, and no request received
InitIdle1 ==
    /\ PRIVATE_KEY = "0xKey"
    /\ AUTH_TOKEN = ""
    /\ InitRequest1

(***************************************************************************)
(* Spec: one request, every input and every configuration.                 *)
(***************************************************************************)
Init ==
    /\ OWNER_API_KEY \in {"", OwnerKey}
    /\ COMMISSION_ADDRESS \in {"", "0xCommission"}
    /\ COMMISSION_RATE \in Rates
    /\ InitRequests
    /\ InitIdle1

Receive == \E rq \in RequestInputs : SignPayment(1, rq)

Fetched == \E o \in FetchOutcomes : FetchReturns(1, o)

Submitted == TransferResolves(1)

SubmitFailed == \E c \in TransferErrors : TransferRejects(1, c)

Mined == \E leg \in {"commission", "merchant"}, st \in {"success", "reverted"} :
            Mine(1, leg, st)

Confirmed == WaitResolves(1)

WaitFailed == \E c \in WaitErrors : WaitRejects(1, c)

Next ==
    \/ Receive
    \/ Fetched
    \/ Submitted
    \/ SubmitFailed
    \/ Mined
    \/ Confirmed
    \/ WaitFailed

Spec == Init /\ [][Next]_vars

(***************************************************************************)
(* SpecLive: Spec with every pending call of the handler returning.  The   *)
(* fetch of the identity service (10 s abort timer, line 106), the         *)
(* contract.transfer call and tx.wait(1, 60000) each resolve or reject;    *)
(* the chain itself is under no obligation to mine a transaction.          *)
(***************************************************************************)
LiveInputs ==
    [method : {"POST"}, path : {"/sign-payment"},
     apiKey : ApiKeys, merchant_address : MerchantAddresses,
     total_amount : {<<"1">>, <<"-", "5">>, <<"a", "b", "c">>,
                     <<"1", "5", "0", "0", "0", "0", "0", "0">>},
     token : {"USDC", "USDT"}, chain : {"base", "solana"},
     commission_address : {""}]

InitLive ==
    /\ OWNER_API_KEY \in {"", OwnerKey}
    /\ COMMISSION_ADDRESS \in {"", "0xCommission"}
    /\ COMMISSION_RATE = 5000
    /\ InitRequests
    /\ InitIdle1

ReceiveLive == \E rq \in LiveInputs : SignPayment(1, rq)

NextLive ==
    \/ ReceiveLive
    \/ Fetched
    \/ Submitted
    \/ SubmitFailed
    \/ Mined
    \/ Confirmed
    \/ WaitFailed

SpecLive ==
    /\ InitLive /\ [][NextLive]_vars
    /\ WF_vars(Fetched)
    /\ WF_vars(Submitted \/ SubmitFailed)
    /\ WF_vars(Confirmed \/ WaitFailed)

(***************************************************************************)
(* SpecConc: NumRequests valid requests of the owner in flight at once,    *)
(* under the default configuration.                                        *)
(***************************************************************************)
ConcInputs ==
    [method : {"POST"}, path : {"/sign-payment"},
     apiKey : {OwnerKey}, merchant_address : {"0xMerchant"},
     total_amount : {<<"1", "5", "0", "0", "0", "0", "0", "0">>},
     token : {"USDC"}, chain : {"base"}, commission_address : {""}]

InitConc ==
    /\ OWNER_API_KEY = OwnerKey
    /\ COMMISSION_ADDRESS = "0xCommission"
    /\ COMMISSION_RATE = 5000
    /\ InitRequests
    /\ InitIdle1

ReceiveConc == \E r \in Requests, rq \in ConcInputs : SignPayment(r, rq)

FetchedConc == \E r \in Requests, o \in FetchOutcomes : FetchReturns(r, o)

SubmittedConc == \E r \in Requests : TransferResolves(r)

SubmitFailedConc == \E r \in Requests, c \in TransferErrors : TransferRejects(r, c)

MinedConc ==
    \E r \in Requests, leg \in {"commission", "merchant"},
       st \in {"success", "reverted"} : Mine(r, leg, st)

ConfirmedConc == \E r \in Requests : WaitResolves(r)

WaitFailedConc == \E r \in Requests, c \in WaitErrors : WaitRejects(r, c)

NextConc ==
    \/ ReceiveConc
    \/ FetchedConc
    \/ SubmittedConc
    \/ SubmitFailedConc
    \/ MinedConc
    \/ ConfirmedConc
    \/ WaitFailedConc

SpecConc == InitConc /\ [][NextConc]_vars

(***************************************************************************)
(* SpecPair: two requests of the owner under the default configuration.    *)
(* The first is one of two reference requests, the second varies in every  *)
(* field of the body.                                                      *)
(***************************************************************************)
PairTotals == {<<"4", "0", "0">>, <<"1", "5", "0", "0", "0", "0", "0", "0">>}

PairInputs(r) ==
    IF r = 1
    THEN [method : {"POST"}, path : {"/sign-payment"},
          apiKey : {OwnerKey}, merchant_address : {"0xMerchant"},
          total_amount : PairTotals, token : {"USDC"}, chain : {"base"},
          commission_address : {""}]
    ELSE [method : {"POST"}, path : {"/sign-payment"},
          apiKey : {OwnerKey}, merchant_address : {"0xMerchant", "0xOther"},
          total_amount : PairTotals, token : {"USDC", "DAI"},
          chain : {"base", "polygon"},
          commission_address : {"", "0xAttacker"}]

\* the actions of Spec, for either request
NextPair ==
    \/ \E r \in {1, 2} : \E rq \in PairInputs(r) : SignPayment(r, rq)
    \/ \E r \in {1, 2}, o \in FetchOutcomes : FetchReturns(r, o)
    \/ \E r \in {1, 2} : TransferResolves(r)
    \/ \E r \in {1, 2}, c \in TransferErrors : TransferRejects(r, c)
    \/ \E r \in {1, 2}, leg \in {"commission", "merchant"},
          st \in {"success", "reverted"} : Mine(r, leg, st)
    \/ \E r \in {1, 2} : WaitResolves(r)
    \/ \E r \in {1, 2}, c \in WaitErrors : WaitRejects(r, c)

SpecPair == InitConc /\ [][NextPair]_vars

(***************************************************************************)
(* SpecApp: one request to any route of the service.                       *)
(***************************************************************************)
Methods == {"GET", "POST"}

Paths == {"/health", "/sign-payment", "/sign", "/sign-and-send"}

AppInputs ==
    [method : Methods, path : Paths,
     apiKey : ApiKeys, merchant_address : MerchantAddresses,
     total_amount : {<<>>, <<"a", "b", "c">>,
                     <<"1", "5", "0", "0", "0", "0", "0", "0">>},
     token : {"USDC", "USDT"}, chain : {"base", "solana"},
     commission_address : {""}]

ReceiveApp == \E rq \in AppInputs : Dispatch(1, rq)

NextApp ==
    \/ ReceiveApp
    \/ Fetched
    \/ Submitted
    \/ SubmitFailed
    \/ Mined
    \/ Confirmed
    \/ WaitFailed

SpecApp == InitLive /\ [][NextApp]_vars

(***************************************************************************)
(* SpecV1: one request to any route of the v1 service.                     *)
(***************************************************************************)
Inputs1 ==
    [method : Methods, path : {"/health", "/wallet", "/sign-and-send", "/sign"},
     authorization : {<<>>, <<"Bearer ", "secret">>, <<"secret">>,
                      <<"Bearer ", "wrong">>},
     to : {"", "0xTo"},
     amount : {<<>>, <<"0">>, <<"-", "5">>, <<"a", "b", "c">>,
               <<"1", ".", "5">>,
               <<"1", "5", "0", "0", "0", "0", "0", "0">>},
     token : {"USDC", "USDT", "WBTC"}, chain : {"base", "solana"}]

InitV1 ==
    /\ OWNER_API_KEY = OwnerKey
    /\ COMMISSION_ADDRESS = "0xCommission"
    /\ COMMISSION_RATE = 5000
    /\ InitRequests
    /\ PRIVATE_KEY \in {"", "0xKey"}
    /\ AUTH_TOKEN \in {"", "secret"}
    /\ InitRequest1

NextV1 ==
    \/ \E rq \in Inputs1 : Dispatch1(rq)
    \/ TransferResolves1
    \/ \E c \in TransferErrors1 : TransferRejects1(c)
    \/ \E st \in {"success", "reverted"} : Mine1(st)
    \/ WaitResolves1
    \/ \E c \in WaitErrors1 : WaitRejects1(c)
    \/ Handle1
    \/ \E o \in {"error_response", "no_response"} : StackOverflow1(o)

SpecV1 == InitV1 /\ [][NextV1]_vars

(***************************************************************************)
(* Properties.                                                             *)
(***************************************************************************)
\* the positions in the chain client's log of the transfers of request r
TransfersOf(r) == {i \in 1..Len(transfers) : transfers[i].req = r}

NumTransfers(r) == Cardinality(TransfersOf(r))

\* the handler of r has left the try block through the catch block
Threw(r) == locals[r].error # NoError

\* the split of step 5 has been computed for r
SplitDone(r) == locals[r].commissionAmount # <<>>

TotalOf(r) == StringToBigInt(request[r].total_amount)

\* a non-empty string of decimal digits that is not zero
IsPositiveIntegerString(s) ==
    /\ s # <<>>
    /\ \A i \in 1..Len(s) : IsDigit(s[i])
    /\ \E i \in 1..Len(s) : s[i] # "0"

\* the client-visible category of a response
Category(resp) == <<resp.status, resp.error>>

\* C1: the merchant transfer is submitted only after the commission
\* transfer was submitted and its wait returned a receipt with status 1;
\* when the commission transaction reverted, or its wait did not return
\* a success receipt, the chain client has received exactly one transfer
\* call for the request.
C1_CommissionConfirmedBeforeMerchant ==
    \A r \in Requests :
        /\ \A i \in TransfersOf(r) :
              transfers[i].leg = "merchant" =>
                  /\ \E j \in TransfersOf(r) :
                        j < i /\ transfers[j].leg = "commission"
                  /\ locals[r].receipt1.status = 1
                  /\ onchain[r].commission = "success"
        /\ (NumTransfers(r) > 0 /\ locals[r].receipt1.status # 1)
              => NumTransfers(r) = 1
        /\ onchain[r].commission = "reverted" => NumTransfers(r) = 1

\* the commission transaction reverted, the request was answered, and the
\* chain client saw one transfer call
C1_Witness ==
    \E r \in Requests :
        /\ pc[r] = "done"
        /\ onchain[r].commission = "reverted"
        /\ locals[r].receipt1.status = 0
        /\ NumTransfers(r) = 1

\* C2: for a total above zero the two amounts of the split add up to the
\* total, and neither is negative.
C2_SplitAddsUp ==
    \A r \in Requests :
        (SplitDone(r) /\ BigIsPositive(TotalOf(r))) =>
            LET c == StringToBigInt(locals[r].commissionAmount)
                m == StringToBigInt(locals[r].merchantAmount)
            IN /\ BigAdd(c, m) = TotalOf(r)
               /\ ~BigIsNegative(c)
               /\ ~BigIsNegative(m)

\* a total above 2^63 was split into two amounts above zero
C2_Witness ==
    \E r \in Requests :
        /\ SplitDone(r)
        /\ BigGeq(TotalOf(r), StringToBigInt(
               <<"9", "2", "2", "3", "3", "7", "2", "0", "3", "6",
                 "8", "5", "4", "7", "7", "5", "8", "0", "9">>))
        /\ BigIsPositive(StringToBigInt(locals[r].commissionAmount))
        /\ BigIsPositive(StringToBigInt(locals[r].merchantAmount))

\* C3 (as claimed): for a total above zero the commission is
\* floor(totalAmount * rate), the rate being COMMISSION_RATE millionths.
C3_CommissionIsFloorOfProduct ==
    \A r \in Requests :
        (SplitDone(r) /\ BigIsPositive(TotalOf(r))) =>
            StringToBigInt(locals[r].commissionAmount)
              = BigDivSmall(BigMulSmall(TotalOf(r), COMMISSION_RATE), 1000000)

\* C4 (as claimed): when the commission receipt had status 1 and the handler
\* then threw, the error response carries the commission transaction hash.
C4_MerchantFailureNamesCommissionTx ==
    \A r \in Requests :
        (pc[r] = "done" /\ locals[r].receipt1.status = 1 /\ Threw(r)) =>
            response[r].tx_hash_commission = locals[r].tx1

\* C5: with an owner key configured, a request whose key is not the owner
\* key is answered 401 (no key) or 403 (another key) at once, and neither
\* a transfer nor a wait is asked of the chain client.
C5_MismatchRejectedWithoutChainCall ==
    \A r \in Requests :
        (pc[r] # "idle" /\ ~Falsy(OWNER_API_KEY)
         /\ request[r].apiKey # OWNER_API_KEY) =>
            /\ pc[r] = "done"
            /\ ~response[r].success
            /\ response[r].status = IF Falsy(request[r].apiKey) THEN 401 ELSE 403
            /\ NumTransfers(r) = 0
            /\ waits[r] = 0

\* another key than the configured owner key was answered 403
C5_Witness ==
    \E r \in Requests :
        /\ pc[r] = "done"
        /\ ~Falsy(OWNER_API_KEY)
        /\ request[r].apiKey = "other-key"
        /\ response[r].status = 403

\* C6 (as claimed): a request whose total_amount is not a positive integer
\* string never reaches the chain client, and when it is authorized and
\* passes the other checks it is answered 400.
C6_InvalidAmountRejected ==
    \A r \in Requests :
        (pc[r] # "idle" /\ ~IsPositiveIntegerString(request[r].total_amount)) =>
            /\ NumTransfers(r) = 0
            /\ waits[r] = 0
            /\ (pc[r] = "done" /\ response[r].status \notin {401, 403}
                /\ ValidationError(request[r]) = NoResponse)
                  => response[r].status = 400

\* C7 (as claimed): in the chain client's log no transfer of another request
\* lies between the commission transfer and the merchant transfer of a
\* request.
C7_LegsNotInterleaved ==
    \A i, j, k \in 1..Len(transfers) :
        (i < j /\ j < k
         /\ transfers[i].req = transfers[k].req
         /\ transfers[i].leg = "commission" /\ transfers[k].leg = "merchant")
            => transfers[j].req = transfers[i].req

\* C8 (as claimed): the response to a timed-out wait has another category
\* than the response to a transaction that failed on chain and than the
\* response to an unexpected error.
C8_TimeoutIsDistinctCategory ==
    \A r \in Requests :
        (pc[r] = "done" /\ locals[r].error.code = "TIMEOUT") =>
            /\ Category(response[r])
                 # Category(CatchResponse(PlainError("Commission transaction failed on-chain")))
            /\ Category(response[r])
                 # Category(CatchResponse(PlainError("Merchant transaction failed on-chain")))
            /\ Category(response[r])
                 # Category(CatchResponse(LibraryError("NETWORK_ERROR")))

\* C9 (as claimed): no answered request leaves the commission transfer
\* confirmed on chain and the merchant transfer not confirmed.
C9_AtomicOnChain ==
    \A r \in Requests :
        pc[r] = "done" =>
            ~(onchain[r].commission = "success" /\ onchain[r].merchant # "success")

\* C10: a response carries both transaction hashes or neither; it carries
\* them exactly when it is the success response, and then both waits have
\* returned a receipt with status 1 and nothing was thrown.
C10_BothHashesOrNeither ==
    \A r \in Requests :
        pc[r] = "done" =>
            /\ (response[r].tx_hash # NoHash) = (response[r].tx_hash_commission # NoHash)
            /\ (response[r].tx_hash # NoHash) = response[r].success
            /\ response[r].success =>
                  /\ response[r].tx_hash = TxHash(r, "merchant")
                  /\ response[r].tx_hash_commission = TxHash(r, "commission")
                  /\ locals[r].receipt1.status = 1
                  /\ locals[r].receipt2.status = 1
                  /\ onchain[r].commission = "success"
                  /\ onchain[r].merchant = "success"
                  /\ ~Threw(r)

\* a success response with both hashes was sent
C10_Witness ==
    \E r \in Requests :
        /\ pc[r] = "done"
        /\ response[r].success
        /\ response[r].tx_hash = TxHash(r, "merchant")
        /\ response[r].tx_hash_commission = TxHash(r, "commission")

\* verifyOwnerApiKey has returned true for the request of r
Authenticated(r) ==
    /\ pc[r] \notin {"idle", "verify"}
    /\ ~Falsy(request[r].apiKey)
    /\ \/ Falsy(OWNER_API_KEY)
       \/ request[r].apiKey = OWNER_API_KEY /\ locals[r].fetched = "ok"

\* one of the four body fields is absent or empty
MissingAnyField(rq) ==
    \/ rq.merchant_address = ""
    \/ rq.total_amount = <<>>
    \/ rq.token = ""
    \/ rq.chain = ""

SupportedChains == {"ethereum", "base", "polygon", "arbitrum"}

SupportedTokens == {"USDC", "USDT", "DAI"}

\* C11: an authenticated request is validated in the order fields, chain,
\* token, token on chain: a request missing a field is answered 400
\* "Invalid request" whatever its chain and token, an unsupported chain is
\* reported before an unsupported token, and that before the cross-check.
C11_ValidationOrder ==
    \A r \in Requests :
        Authenticated(r) =>
            LET rq == request[r]
            IN /\ MissingAnyField(rq) =>
                    /\ pc[r] = "done"
                    /\ Category(response[r]) = <<400, "Invalid request">>
               /\ (~MissingAnyField(rq) /\ rq.chain \notin SupportedChains) =>
                    /\ pc[r] = "done"
                    /\ Category(response[r]) = <<400, "Unsupported chain">>
               /\ (~MissingAnyField(rq) /\ rq.chain \in SupportedChains
                   /\ rq.token \notin SupportedTokens) =>
                    /\ pc[r] = "done"
                    /\ Category(response[r]) = <<400, "Unsupported token">>

\* a request without merchant_address that names an unsupported chain and an
\* unsupported token was answered "Invalid request"
C11_Witness ==
    \E r \in Requests :
        /\ Authenticated(r)
        /\ request[r].merchant_address = ""
        /\ request[r].chain = "solana"
        /\ request[r].token = "WBTC"
        /\ Category(response[r]) = <<400, "Invalid request">>

FailureKind(r) ==
    LET rq == request[r]
    IN IF pc[r] # "done" THEN "none"
       ELSE IF rq.apiKey = "" THEN "MissingCredential"
       ELSE IF ~Authenticated(r) THEN "Unauthorized"
       ELSE IF MissingAnyField(rq) THEN "MissingFields"
       ELSE IF rq.chain \notin SupportedChains THEN "UnsupportedChain"
       ELSE IF rq.token \notin SupportedTokens THEN "UnsupportedToken"
       ELSE IF rq.token = "USDT" /\ rq.chain = "base" THEN "TokenNotOnChain"
       ELSE IF ~IsPositiveIntegerString(rq.total_amount) THEN "InvalidAmount"
       ELSE IF COMMISSION_ADDRESS = "" THEN "MisconfiguredCommission"
       ELSE IF locals[r].error.code = "TIMEOUT" THEN "ConfirmationTimeout"
       ELSE IF locals[r].error.code = "INSUFFICIENT_FUNDS" THEN "InsufficientFunds"
       ELSE IF \/ locals[r].receipt1.status = 0
               \/ locals[r].error.code = "CALL_EXCEPTION" /\ NumTransfers(r) = 1
            THEN "CommissionFailed"
       ELSE IF \/ locals[r].receipt2.status = 0
               \/ locals[r].error.code = "CALL_EXCEPTION" /\ NumTransfers(r) = 2
            THEN "MerchantFailed"
       ELSE IF Threw(r) THEN "UnexpectedChainError"
       ELSE "none"

\* C13 (as claimed): a request that ran into a failure is not answered with
\* success, and two requests that ran into different failures are answered
\* with different categories (status and error).
C13_FailuresPairwiseDistinct ==
    \A r1, r2 \in Requests :
        FailureKind(r1) # "none" =>
            /\ ~response[r1].success
            /\ (FailureKind(r2) # "none" /\ FailureKind(r2) # FailureKind(r1))
                  => Category(response[r1]) # Category(response[r2])

\* C14: with no owner key configured, a request carrying a non-empty key is
\* never answered 401 or 403 and never causes an identity-service call; it
\* is answered by the validation, or its commission transfer is submitted.
C14_FailOpenWithoutOwnerKey ==
    \A r \in Requests :
        (pc[r] # "idle" /\ OWNER_API_KEY = "" /\ request[r].apiKey # "") =>
            /\ fetches[r] = 0
            /\ pc[r] # "verify"
            /\ response[r].status \notin {401, 403}
            /\ ValidationError(request[r]) # NoResponse =>
                  /\ pc[r] = "done"
                  /\ response[r] = ValidationError(request[r])
            /\ (ValidationError(request[r]) = NoResponse
                /\ StringIsBigInt(request[r].total_amount)) =>
                  NumTransfers(r) >= 1

\* with no owner key configured, a request with an arbitrary key had its
\* commission transfer submitted
C14_Witness ==
    \E r \in Requests :
        /\ OWNER_API_KEY = ""
        /\ request[r].apiKey = "other-key"
        /\ fetches[r] = 0
        /\ NumTransfers(r) >= 1

\* C15: with an owner key configured, a request carrying that key causes one
\* identity-service call and no chain-client call before it returns; the
\* request passes the authorization exactly when the call returned an ok
\* response with the user document, and is answered 403 with no chain-client
\* call when it returned a non-ok response, an unreadable body or a network
\* error.
C15_IdentityServiceDecides ==
    \A r \in Requests :
        (pc[r] # "idle" /\ OWNER_API_KEY # ""
         /\ request[r].apiKey = OWNER_API_KEY) =>
            /\ fetches[r] = 1
            /\ pc[r] = "verify" =>
                  /\ locals[r].fetched = "none"
                  /\ NumTransfers(r) = 0 /\ waits[r] = 0
            /\ pc[r] # "verify" =>
                  IF locals[r].fetched = "ok"
                  THEN /\ response[r].status \notin {401, 403}
                       /\ (ValidationError(request[r]) = NoResponse
                           /\ StringIsBigInt(request[r].total_amount)) =>
                              NumTransfers(r) >= 1
                  ELSE /\ locals[r].fetched \in {"not_ok", "bad_json", "network_error"}
                       /\ pc[r] = "done"
                       /\ Category(response[r]) = <<403, "Forbidden">>
                       /\ NumTransfers(r) = 0 /\ waits[r] = 0

\* the owner's key was rejected 403 after a network error of the identity
\* service
C15_Witness ==
    \E r \in Requests :
        /\ OWNER_API_KEY # ""
        /\ request[r].apiKey = OWNER_API_KEY
        /\ locals[r].fetched = "network_error"
        /\ Category(response[r]) = <<403, "Forbidden">>

\* C16: a request without an x-api-key header is answered 401 "Unauthorized"
\* at once, with no identity-service call and no chain-client call, whether
\* or not an owner key is configured.
C16_MissingKeyRejected ==
    \A r \in Requests :
        (pc[r] # "idle" /\ request[r].apiKey = "") =>
            /\ pc[r] = "done"
            /\ Category(response[r]) = <<401, "Unauthorized">>
            /\ ~response[r].success
            /\ fetches[r] = 0
            /\ NumTransfers(r) = 0
            /\ waits[r] = 0

\* with no owner key configured, an otherwise valid request without the
\* header was answered 401
C16_Witness ==
    \E r \in Requests :
        /\ OWNER_API_KEY = ""
        /\ request[r].apiKey = ""
        /\ ValidationError(request[r]) = NoResponse
        /\ Category(response[r]) = <<401, "Unauthorized">>

\* the request fails one of the checks of the validator
InvalidRequest(rq) ==
    \/ MissingAnyField(rq)
    \/ rq.chain \notin SupportedChains
    \/ rq.token \notin SupportedTokens
    \/ rq.token = "USDT" /\ rq.chain = "base"

\* C17: a request that does not pass the authorization is answered 401 or
\* 403 even when it is invalid as well, and nothing is validated, split or
\* submitted while the authorization is undecided; an authenticated invalid
\* request is answered 400 before any split or transfer.
C17_AuthorizationBeforeValidation ==
    \A r \in Requests :
        /\ (pc[r] \notin {"idle", "verify"} /\ ~Authenticated(r)) =>
              /\ pc[r] = "done"
              /\ response[r].status \in {401, 403}
              /\ ~SplitDone(r)
              /\ NumTransfers(r) = 0
        /\ pc[r] = "verify" =>
              /\ response[r] = NoResponse
              /\ ~SplitDone(r)
              /\ NumTransfers(r) = 0
        /\ (Authenticated(r) /\ InvalidRequest(request[r])) =>
              /\ pc[r] = "done"
              /\ response[r].status = 400
              /\ ~SplitDone(r)
              /\ NumTransfers(r) = 0

\* a request with another key than the owner's, no merchant_address and an
\* unsupported chain was answered 403
C17_Witness ==
    \E r \in Requests :
        /\ OWNER_API_KEY # ""
        /\ request[r].apiKey = "other-key"
        /\ request[r].merchant_address = ""
        /\ request[r].chain = "solana"
        /\ Category(response[r]) = <<403, "Forbidden">>

\* the transfers of request r for one leg
LegTransfers(r, leg) == {i \in TransfersOf(r) : transfers[i].leg = leg}

\* C18: a request causes at most one commission transfer call and at most
\* one merchant transfer call, so at most two transfer calls, and at most
\* one wait per transfer, whatever the outcome of each.
C18_NoRetries ==
    \A r \in Requests :
        /\ Cardinality(LegTransfers(r, "commission")) <= 1
        /\ Cardinality(LegTransfers(r, "merchant")) <= 1
        /\ NumTransfers(r) <= 2
        /\ waits[r] <= NumTransfers(r)

\* the commission wait timed out and the request was answered with one
\* transfer call made
C18_Witness ==
    \E r \in Requests :
        /\ pc[r] = "done"
        /\ locals[r].error.code = "TIMEOUT"
        /\ NumTransfers(r) = 1
        /\ waits[r] = 1

\* C19: with no commission address configured no transfer is ever submitted
\* and no request succeeds; every authenticated request that passes the
\* validator is answered 500 "Commission address not configured".
C19_NoCommissionAddressNoTransfer ==
    \A r \in Requests :
        COMMISSION_ADDRESS = "" =>
            /\ NumTransfers(r) = 0
            /\ waits[r] = 0
            /\ ~response[r].success
            /\ (Authenticated(r) /\ ~InvalidRequest(request[r])) =>
                  /\ pc[r] = "done"
                  /\ Category(response[r])
                       = <<500, "Commission address not configured">>

\* a valid request of the owner was answered with the configuration error
C19_Witness ==
    \E r \in Requests :
        /\ COMMISSION_ADDRESS = ""
        /\ Authenticated(r)
        /\ ~InvalidRequest(request[r])
        /\ IsPositiveIntegerString(request[r].total_amount)
        /\ Category(response[r]) = <<500, "Commission address not configured">>

\* C20: a success response for total_amount "15000000" in USDC at the rate
\* 0.005 reports commission_amount "75000", merchant_amount "14925000",
\* total_usd 15, commission_usd 0.075 and merchant_usd 14.925.
C20_ExampleSplitAndUsd ==
    \A r \in Requests :
        (response[r].success
         /\ request[r].total_amount = <<"1", "5", "0", "0", "0", "0", "0", "0">>
         /\ request[r].token = "USDC"
         /\ COMMISSION_RATE = 5000) =>
            /\ response[r].commission_amount = <<"7", "5", "0", "0", "0">>
            /\ response[r].merchant_amount
                 = <<"1", "4", "9", "2", "5", "0", "0", "0">>
            /\ response[r].total_usd
                 = [coefficient |-> <<"1", "5">>, scale |-> 0]
            /\ response[r].commission_usd
                 = [coefficient |-> <<"7", "5">>, scale |-> 3]
            /\ response[r].merchant_usd
                 = [coefficient |-> <<"1", "4", "9", "2", "5">>, scale |-> 3]

\* such a request was answered with success
C20_Witness ==
    \E r \in Requests :
        /\ response[r].success
        /\ request[r].total_amount = <<"1", "5", "0", "0", "0", "0", "0", "0">>
        /\ request[r].token = "USDC"
        /\ COMMISSION_RATE = 5000
        /\ response[r].commission_usd.scale = 3

\* C21: with every call to the identity service and to the chain client
\* returning, failing or timing out, a /sign-payment request that was
\* received is eventually answered, with a success or with an error document;
\* nothing is sent before the handler is done, and the response that was sent
\* is never replaced by another.
C21_EveryRequestAnsweredOnce ==
    /\ \A r \in Requests :
          (pc[r] # "idle") ~>
              (/\ pc[r] = "done"
               /\ response[r].status # 0
               /\ response[r].success \/ response[r].error # "")
    /\ [](\A r \in Requests : pc[r] # "done" => response[r] = NoResponse)
    /\ [][\A r \in Requests :
              pc[r] = "done" => pc'[r] = "done" /\ response'[r] = response[r]]_vars

\* a request that went through the fetch, both transfers and a wait, and was
\* answered with the error of a timeout of the second wait
C21_Witness ==
    /\ pc[1] = "done"
    /\ fetches[1] = 1
    /\ waits[1] = 2
    /\ locals[1].error.code = "TIMEOUT"
    /\ response[1].status = 500

\* the commission transfer of request r: the first contract.transfer call of
\* the handler (line 258)
CommissionTransfer(r) ==
    transfers[CHOOSE i \in LegTransfers(r, "commission") : TRUE]

\* C22: the commission's amount and recipient depend on total_amount and the
\* server's configuration only: two requests with the same total_amount that
\* submitted their commission transfers submitted the same amount to the same
\* address, the configured commission address, whatever their
\* merchant_address, token, chain and further body fields are.
C22_CommissionIndependentOfClient ==
    \A r1, r2 \in Requests :
        (/\ LegTransfers(r1, "commission") # {}
         /\ LegTransfers(r2, "commission") # {}
         /\ request[r1].total_amount = request[r2].total_amount)
        => /\ CommissionTransfer(r1).amount = CommissionTransfer(r2).amount
           /\ CommissionTransfer(r1).to = CommissionTransfer(r2).to
           /\ CommissionTransfer(r1).to = COMMISSION_ADDRESS

\* two requests of the same total that differ in merchant, token, chain and
\* in a commission_address of the client's, both with the commission submitted
C22_Witness ==
    /\ LegTransfers(1, "commission") # {}
    /\ LegTransfers(2, "commission") # {}
    /\ request[1].total_amount = request[2].total_amount
    /\ request[1].merchant_address # request[2].merchant_address
    /\ request[1].token # request[2].token
    /\ request[1].chain # request[2].chain
    /\ request[2].commission_address = "0xAttacker"
    /\ CommissionTransfer(1).amount = <<"7", "5", "0", "0", "0">>

\* C25 (as claimed): a request answered 400, 401 or 403 has had no transfer
\* submitted: none of its two transactions was broadcast.
C25_ClientErrorWithoutTransfer ==
    \A r \in Requests :
        (pc[r] = "done" /\ response[r].status \in {400, 401, 403}) =>
            /\ onchain[r]["commission"] = "none"
            /\ onchain[r]["merchant"] = "none"

\* C26: a request answered with success called contract.transfer exactly
\* twice, both times on the contract of its token on its chain: first with
\* the commission amount for the configured commission address, then with the
\* merchant amount for merchant_address; and the two amounts add up to
\* total_amount.
C26_SuccessMeansTwoTransfers ==
    \A r \in Requests :
        (pc[r] = "done" /\ response[r].success) =>
            /\ NumTransfers(r) = 2
            /\ \E i, j \in TransfersOf(r) :
                  /\ i < j
                  /\ transfers[i].leg = "commission"
                  /\ transfers[i].contract
                        = TOKENS[request[r].token].contracts[request[r].chain]
                  /\ transfers[i].to = COMMISSION_ADDRESS
                  /\ transfers[i].amount = response[r].commission_amount
                  /\ transfers[j].leg = "merchant"
                  /\ transfers[j].contract = transfers[i].contract
                  /\ transfers[j].to = request[r].merchant_address
                  /\ transfers[j].amount = response[r].merchant_amount
                  /\ StringIsBigInt(transfers[i].amount)
                  /\ StringIsBigInt(transfers[j].amount)
                  /\ BigAdd(StringToBigInt(transfers[i].amount),
                            StringToBigInt(transfers[j].amount)) = TotalOf(r)

\* a DAI payment on arbitrum of 9223372036854775999 at the rate 0.999999,
\* answered with success
C26_Witness ==
    /\ pc[1] = "done"
    /\ response[1].success
    /\ request[1].token = "DAI"
    /\ request[1].chain = "arbitrum"
    /\ COMMISSION_RATE = 999999
    /\ Len(request[1].total_amount) = 19
    /\ NumTransfers(1) = 2

\* the request was routed to the /sign-payment handler
IsSignPayment(rq) == rq.method = "POST" /\ rq.path = "/sign-payment"

\* C24: no route of the service submits a merchant transfer without a
\* confirmed commission transfer before it.  A POST /sign request is answered
\* 410 at once, whatever its headers and body, with no call to the identity
\* service or to the chain client; a request to any route but POST
\* /sign-payment calls neither; and every merchant transfer in the log was
\* submitted by a request whose commission receipt had status 1.
C24_OnlySignPaymentSubmits ==
    \A r \in Requests :
        /\ (pc[r] # "idle" /\ request[r].method = "POST" /\ request[r].path = "/sign")
           => /\ pc[r] = "done"
              /\ response[r] = DeprecatedResponse
        /\ (pc[r] # "idle" /\ ~IsSignPayment(request[r]))
           => /\ pc[r] = "done"
              /\ NumTransfers(r) = 0
              /\ waits[r] = 0
              /\ fetches[r] = 0
              /\ onchain[r] = [commission |-> "none", merchant |-> "none"]
        /\ LegTransfers(r, "merchant") # {}
           => /\ IsSignPayment(request[r])
              /\ locals[r].receipt1.status = 1
              /\ onchain[r]["commission"] = "success"

\* a POST /sign request with the owner's key and a body that /sign-payment
\* would accept, answered 410
C24_Witness ==
    /\ pc[1] = "done"
    /\ request[1].method = "POST"
    /\ request[1].path = "/sign"
    /\ request[1].apiKey = OwnerKey
    /\ ValidationError(request[1]) = NoResponse
    /\ response[1].status = 410
    /\ transfers = <<>>

\* C23 (as claimed): when the wait of a /sign-and-send request times out
\* after the transaction was submitted, the response is the 'Transaction
\* timeout' error, not the 'Transaction failed' one, and it holds the
\* block-explorer link of the submitted transaction.
C23_TimeoutNamesExplorerLink ==
    (pc1 = "done" /\ locals1.error.code = "TIMEOUT") =>
        /\ response1.error = "Transaction timeout"
        /\ <<response1.status, response1.error>> # <<500, "Transaction failed">>
        /\ response1.explorer_url
             = [explorer |-> EXPLORERS1[request1.chain], tx |-> locals1.tx]

\* the responses /sign-and-send can give to a request: the one of its first
\* failing check or, when all pass, the success document or one of the catch
\* block, after contract.transfer was called
IsSignAndSendResponse(rq, resp) ==
    IF EarlyResponse1(rq) # NoResponse1
    THEN resp = EarlyResponse1(rq) /\ transfers1 = <<>>
    ELSE /\ Len(transfers1) = 1
         /\ \/ resp = SuccessResponse1(rq, locals1)
            \/ resp = CatchResponse1(locals1.error) /\ locals1.error # NoError

\* C27 (as claimed): a POST /sign request is not left without a response,
\* and the response it gets is one /sign-and-send gives for the same headers
\* and body.
C27_SignIsAliasOfSignAndSend ==
    (request1.method = "POST" /\ request1.path = "/sign") =>
        /\ pc1 # "abandoned"
        /\ pc1 = "done" => IsSignAndSendResponse(request1, response1)

\* C28 (as claimed): a /sign-and-send request is answered with success:
\* true and 'Transaction signed and confirmed successfully' only when its
\* transaction was confirmed with status 1.
C28_SuccessOnlyOnSuccessStatus ==
    (pc1 = "done" /\ response1.success) =>
        /\ response1.message = "Transaction signed and confirmed successfully"
        /\ locals1.receipt.status = 1
        /\ onchain1 = "success"

====
